---- MODULE Spec2Model ----
(***************************************************************************)
(* Model of ftl-robot-host: the port router (src/robot.js, class Robot)    *)
(* and the Pololu A-Star board driver (src/unnamed/part_000, class         *)
(* PololuAstarBoard) with its poll timer, its flush timer and the I2C bus. *)
(*                                                                         *)
(* A register image (a node Buffer of 23 bytes) is a sequence of length 23 *)
(* whose element r+1 is the byte at offset r; <<>> stands for undefined.   *)
(* A PWM input v is the integer n with v = n / PWMDen, so the arithmetic   *)
(* of writePWM is exact.  JavaScript false/true read from the board state  *)
(* are 0/1.                                                                *)
(***************************************************************************)
EXTENDS Integers, Sequences, FiniteSets, TLC

\* ---------------------------------------------------------------- bounds
\* length of the port map literal of the configuration (construction spec)
MaxEntries == 2
\* resolution of the PWM input grid: v = n / PWMDen
PWMDen == 1600
\* the PWM grid spans -(PWMDen + PWMOver) .. PWMDen + PWMOver
PWMOver == 900
\* logical channel numbers 0 .. MaxChannel handed to the router
MaxChannel == 1
\* length of the interface list of the configuration (interface spec)
MaxIfaces == 3

\* ------------------------------------------------------------- constants
\* bytes read by one poll
ImageLen == 23
\* offset of the digital-output byte
DigitalOutReg == 18
\* offset of the first PWM word
PWMBaseReg == 19
\* full scale of a motor word
PWMScale == 400

Regs == 0 .. (ImageLen - 1)
Undefined == <<>>
Get(buf, off) == buf[off + 1]
\* buf[off] = v on a node Buffer: the value is stored modulo 256, an
\* offset outside the buffer is ignored
Put(buf, off, v) ==
    IF off \in Regs THEN [buf EXCEPT ![off + 1] = v % 256] ELSE buf

\* ------------------------------------------------------ bit arithmetic
Pow2(n) == 2 ^ n
\* (x >> i) & 1
Bit(x, i) == (x \div Pow2(i)) % 2
\* x | (1 << i) and x & ~(1 << i) on a byte
SetBit(x, i) == IF Bit(x, i) = 1 THEN x ELSE x + Pow2(i)
ClearBit(x, i) == IF Bit(x, i) = 1 THEN x - Pow2(i) ELSE x
HiNibble(x) == (x \div 16) % 16
LoNibble(x) == x % 16

VARIABLES
    cfgPortMap,        \* robotConfig.portMap as written: a sequence of entries
    cfgInterfaces,     \* robotConfig.interfaces: a sequence of interface specs
    d_interfaces,      \* Robot.d_interfaces
    constructed,       \* "new", "ok" or "threw": the outcome of new Robot(config)
    d_portDeviceMaps,  \* Robot.d_portDeviceMaps
    d_enabled,         \* Robot.d_enabled
    lastToggle,        \* history: the later of enable() and disable(), "none" before both
    d_boardState,      \* PololuAstarBoard.d_boardState
    d_lastBuf,         \* PololuAstarBoard.d_lastBuf
    d_outBuf,          \* PololuAstarBoard.d_outBuf
    d_hasNewData,      \* PololuAstarBoard.d_hasNewData
    d_writeTimer,      \* number of pending flushWrite timeouts
    board,             \* the register file of the remote board
    call,              \* the last operation run and its arguments
    err,               \* the error that operation threw, "none" if it returned
    ret,               \* the value it returned (0 when it returns nothing)
    tx,                \* the bus transactions it issued
    devCalls,          \* the device-level calls the router made in it
    pending            \* history: buffered writes no block write has carried yet

routerVars == <<cfgPortMap, cfgInterfaces, d_interfaces, constructed,
                d_portDeviceMaps, d_enabled, lastToggle>>
driverVars == <<d_boardState, d_lastBuf, d_outBuf, d_hasNewData, d_writeTimer,
                board, pending>>
vars == <<cfgPortMap, cfgInterfaces, d_interfaces, constructed, d_portDeviceMaps,
          d_enabled, lastToggle, d_boardState,
          d_lastBuf, d_outBuf, d_hasNewData, d_writeTimer, board, call, err,
          ret, tx, devCalls, pending>>

NoVal == 0 - 1
NoPending == [i \in 1 .. ImageLen |-> NoVal]
Call(op, ch, val, mode) == [op |-> op, ch |-> ch, val |-> val, mode |-> mode]

\* =====================================================================
\* The board driver, PololuAstarBoard
\* =====================================================================

\* d_boardState as the constructor builds it
InitBoardState ==
    [buttons |-> <<0, 0, 0>>, battMV |-> 0,
     digitalIn |-> <<0, 0, 0, 0, 0, 0>>, analogIn |-> <<0, 0, 0, 0, 0>>]

\* DecodeStatus with the two bytes of every word taken low byte first
DecodeStatusLowByteFirst(buf) ==
    [buttons |-> <<Bit(Get(buf, 3), 0), Bit(Get(buf, 3), 1), Bit(Get(buf, 3), 2)>>,
     battMV |-> Get(buf, 16) * 256 + Get(buf, 15),
     digitalIn |-> [i \in 1 .. 6 |-> Bit(Get(buf, 4), i - 1)],
     analogIn |-> [i \in 1 .. 5 |->
                     Get(buf, 5 + (i - 1) * 2 + 1) * 256 + Get(buf, 5 + (i - 1) * 2)]]

\* the decode of getBoardStatus: bytes 3..16 of the image just read
DecodeStatus(buf) ==
    [buttons |-> <<Bit(Get(buf, 3), 0), Bit(Get(buf, 3), 1), Bit(Get(buf, 3), 2)>>,
     battMV |-> Get(buf, 15) * 256 + Get(buf, 16),
     digitalIn |-> [i \in 1 .. 6 |-> Bit(Get(buf, 4), i - 1)],
     analogIn |-> [i \in 1 .. 5 |->
                     Get(buf, 5 + (i - 1) * 2) * 256 + Get(buf, 5 + (i - 1) * 2 + 1)]]

\* getBoardStatus, the setInterval callback: one block read, then d_lastBuf,
\* d_outBuf and the board state are replaced.  A faulting read throws first.
getBoardStatus(fault) ==
    /\ tx' = <<[kind |-> "readBlock", off |-> 0, data |-> 0, ok |-> ~fault]>>
    /\ IF fault
       THEN /\ err' = "TransportFault"
            /\ UNCHANGED <<d_lastBuf, d_outBuf, d_boardState>>
       ELSE /\ err' = "none"
            /\ d_lastBuf' = board
            /\ d_outBuf' = board
            /\ d_boardState' = DecodeStatus(board)
    /\ ret' = 0
    /\ UNCHANGED <<d_hasNewData, d_writeTimer, board, pending>>

\* what a block write of buf leaves on the board: the registers the
\* firmware refreshes from its inputs (3..16) keep the firmware's values
BoardAfterBlock(buf) ==
    [i \in 1 .. ImageLen |-> IF (i - 1) \in 3 .. 16 THEN board[i] ELSE buf[i]]

\* the buffered writes a block write of buf leaves uncarried
Uncarried(buf) ==
    [i \in 1 .. ImageLen |-> IF pending[i] = buf[i] THEN NoVal ELSE pending[i]]

\* whether flushWrite goes on to write
flushWriteRuns == d_hasNewData

\* what flushWrite leaves in d_outBuf after the write
flushWriteReset == d_lastBuf

\* flushWrite, the setTimeout callback
flushWrite(fault) ==
    /\ ret' = 0
    /\ IF ~flushWriteRuns
       THEN /\ tx' = <<>>
            /\ err' = "none"
            /\ UNCHANGED <<d_outBuf, board, pending>>
       ELSE /\ tx' = <<[kind |-> "writeBlock", off |-> 0, data |-> d_outBuf,
                        ok |-> ~fault]>>
            /\ IF fault
               THEN /\ err' = "TransportFault"
                    /\ UNCHANGED <<d_outBuf, board, pending>>
               ELSE /\ err' = "none"
                    /\ board' = BoardAfterBlock(d_outBuf)
                    /\ pending' = Uncarried(d_outBuf)
                    /\ d_outBuf' = flushWriteReset
    /\ UNCHANGED <<d_boardState, d_lastBuf, d_hasNewData>>

\* setupWriteArms with the d_hasNewData test left out
setupWriteArmsAlways == TRUE

\* whether setupWrite arms a flush timer
setupWriteArms == ~d_hasNewData

\* setupWrite followed by the stores of a buffered write: bytes is the
\* sequence of bytes stored from offset register on.  Buffer.from(undefined)
\* throws before anything is changed.
BufferedWrite(register, bytes) ==
    /\ tx' = <<>>
    /\ ret' = 0
    /\ IF d_outBuf = Undefined /\ d_lastBuf = Undefined
       THEN /\ err' = "TypeError"
            /\ UNCHANGED <<d_outBuf, d_hasNewData, d_writeTimer, pending>>
       ELSE LET base == IF d_outBuf = Undefined THEN d_lastBuf ELSE d_outBuf
                stored(buf) ==
                    [i \in 1 .. ImageLen |->
                        IF (i - 1) \in register .. (register + Len(bytes) - 1)
                        THEN bytes[i - register] % 256 ELSE buf[i]]
            IN  /\ err' = "none"
                /\ d_writeTimer' = IF setupWriteArms THEN d_writeTimer + 1
                                   ELSE d_writeTimer
                /\ d_hasNewData' = TRUE
                /\ d_outBuf' = stored(base)
                /\ pending' = stored(pending)
    /\ UNCHANGED <<d_boardState, d_lastBuf, board>>

\* writeByte arming the timer and setting the flag before the buffer copy
\* that throws
writeByteArmsFirst(register, byte) ==
    IF d_outBuf = Undefined /\ d_lastBuf = Undefined
    THEN /\ tx' = <<>>
         /\ ret' = 0
         /\ err' = "TypeError"
         /\ d_writeTimer' = IF setupWriteArms THEN d_writeTimer + 1 ELSE d_writeTimer
         /\ d_hasNewData' = TRUE
         /\ UNCHANGED <<d_outBuf, pending, d_boardState, d_lastBuf, board>>
    ELSE BufferedWrite(register, <<byte>>)

writeByte(register, byte) == BufferedWrite(register, <<byte>>)

writeWord(register, word) ==
    BufferedWrite(register, <<(word \div 256) % 256, word % 256>>)

writeBuffer(register, buffer) == BufferedWrite(register, buffer)

\* ---------------------------------------------------- the direct path
\* Constants.PinModes: the recognized pin modes
PinModes == {"INPUT", "INPUT_PULLUP", "OUTPUT"}

\* newSetting of configurePin: 0x4 or-ed with the mode bits
PinSetting(mode) ==
    4 + (CASE mode = "INPUT" -> 1
           [] mode = "INPUT_PULLUP" -> 2
           [] OTHER -> 0)

\* the byte configurePin merges the new nibble into
configByte(configByteIdx) == Get(d_lastBuf, configByteIdx)

\* outByte of configurePin
ConfigOutByte(channel, mode) ==
    LET configByteIdx == channel \div 2
        newSetting == PinSetting(mode)
    IN  IF channel % 2 = 0
        THEN ((newSetting * 16) % 256) + LoNibble(configByte(configByteIdx))
        ELSE HiNibble(configByte(configByteIdx)) * 16 + (newSetting % 16)

configurePin(channel, mode, fault) ==
    /\ ret' = 0
    /\ IF d_lastBuf = Undefined
       THEN /\ err' = "TypeError"
            /\ tx' = <<>>
            /\ UNCHANGED board
       ELSE /\ tx' = <<[kind |-> "writeByte", off |-> channel \div 2,
                        data |-> ConfigOutByte(channel, mode), ok |-> ~fault]>>
            /\ IF fault
               THEN err' = "TransportFault" /\ UNCHANGED board
               ELSE /\ err' = "none"
                    /\ board' = Put(board, channel \div 2, ConfigOutByte(channel, mode))
    /\ UNCHANGED <<d_boardState, d_lastBuf, d_outBuf, d_hasNewData, d_writeTimer,
                   pending>>

\* writeDigital storing the new byte in the pending write buffer as well
writeDigitalBuffered(channel, value, fault) ==
    /\ ret' = 0
    /\ IF d_lastBuf = Undefined
       THEN /\ err' = "TypeError"
            /\ tx' = <<>>
            /\ UNCHANGED <<d_lastBuf, d_outBuf, board>>
       ELSE LET oldByte == Get(d_lastBuf, DigitalOutReg)
                newByte == IF value THEN SetBit(oldByte, channel)
                           ELSE ClearBit(oldByte, channel)
            IN  /\ d_lastBuf' = Put(d_lastBuf, DigitalOutReg, newByte)
                /\ d_outBuf' = IF d_outBuf = Undefined THEN d_outBuf
                               ELSE Put(d_outBuf, DigitalOutReg, newByte)
                /\ tx' = <<[kind |-> "writeByte", off |-> DigitalOutReg,
                            data |-> newByte, ok |-> ~fault]>>
                /\ IF fault
                   THEN err' = "TransportFault" /\ UNCHANGED board
                   ELSE err' = "none" /\ board' = Put(board, DigitalOutReg, newByte)
    /\ UNCHANGED <<d_boardState, d_hasNewData, d_writeTimer, pending>>

\* newByte of writeDigital; value is a boolean
DigitalNewByte(oldByte, channel, value) ==
    IF value THEN SetBit(oldByte, channel) ELSE ClearBit(oldByte, channel)

writeDigital(channel, value, fault) ==
    /\ ret' = 0
    /\ IF d_lastBuf = Undefined
       THEN /\ err' = "TypeError"
            /\ tx' = <<>>
            /\ UNCHANGED <<d_lastBuf, board>>
       ELSE LET newByte == DigitalNewByte(Get(d_lastBuf, DigitalOutReg), channel, value)
            IN  /\ d_lastBuf' = Put(d_lastBuf, DigitalOutReg, newByte)
                /\ tx' = <<[kind |-> "writeByte", off |-> DigitalOutReg,
                            data |-> newByte, ok |-> ~fault]>>
                /\ IF fault
                   THEN err' = "TransportFault" /\ UNCHANGED board
                   ELSE err' = "none" /\ board' = Put(board, DigitalOutReg, newByte)
    /\ UNCHANGED <<d_boardState, d_outBuf, d_hasNewData, d_writeTimer, pending>>

\* PWMClamp with the upper clamp left out
PWMClampLowOnly(n) == IF n < 0 - PWMDen THEN 0 - PWMDen ELSE n

\* the two clamps of writePWM, on n = v * PWMDen
PWMClamp(n) ==
    LET lo == IF n < 0 - PWMDen THEN 0 - PWMDen ELSE n
    IN  IF lo > PWMDen THEN PWMDen ELSE lo

\* Math.round(num / den): the nearest integer, a tie going up
MathRound(num, den) == (2 * num + den) \div (2 * den)

\* PWMOutput rounding the magnitude before the sign is put back
PWMOutputRoundsMagnitude(n) ==
    LET value == PWMClamp(n)
        isNegative == value < 0
        magnitude == MathRound((IF isNegative THEN 0 - value ELSE value) * PWMScale,
                               PWMDen)
    IN  IF isNegative THEN 0 - magnitude ELSE magnitude

\* output of writePWM: the magnitude is scaled, the sign put back, then
\* the result is rounded
PWMOutput(n) ==
    LET value == PWMClamp(n)
        isNegative == value < 0
        magnitude == (IF isNegative THEN 0 - value ELSE value) * PWMScale
        output == IF isNegative THEN 0 - magnitude ELSE magnitude
    IN  MathRound(output, PWMDen)

\* output & 0xFFFF
PWMWord(n) == PWMOutput(n) % 65536

writePWM(channel, n, fault) ==
    LET chOffset == PWMBaseReg + channel * 2
        word == PWMWord(n)
    IN  /\ ret' = 0
        /\ tx' = <<[kind |-> "writeWord", off |-> chOffset, data |-> word,
                    ok |-> ~fault]>>
        /\ IF fault
           THEN err' = "TransportFault" /\ UNCHANGED board
           ELSE /\ err' = "none"
                /\ board' = Put(Put(board, chOffset, word \div 256),
                                chOffset + 1, word % 256)
        /\ UNCHANGED <<d_boardState, d_lastBuf, d_outBuf, d_hasNewData,
                       d_writeTimer, pending>>

\* the reads serve the board state and touch nothing
DriverRead(value) ==
    /\ ret' = value
    /\ err' = "none"
    /\ tx' = <<>>
    /\ UNCHANGED driverVars

\* readDigital indexing digitalIn from one
readDigitalFromOne(channel) == DriverRead(d_boardState.digitalIn[channel])

readDigital(channel) == DriverRead(d_boardState.digitalIn[channel + 1])

readAnalog(channel) == DriverRead(d_boardState.analogIn[channel + 1])

readBattMV == DriverRead(d_boardState.battMV)

\* =====================================================================
\* The port router, Robot
\* =====================================================================

\* a logical channel name: 'D-' + channel, 'A-' + channel, 'PWM-' + channel
\* or the literal 'batt'
ChannelName(prefix, channel) == <<prefix, channel>>
BattName == <<"batt">>

\* one "name: {devicePortType, devicePort, direction}" line of a port map;
\* direction "none" is a mapInfo without a direction
Entry(name, type, port, direction) ==
    [name |-> name, devicePortType |-> type, devicePort |-> port,
     direction |-> direction]

\* The object a port map written as the lines lit evaluates to: a later line
\* with a key already present replaces the value and keeps the key's place.
ObjectOf(lit) ==
    [n \in {lit[i].name : i \in 1 .. Len(lit)} |->
        lit[CHOOSE i \in 1 .. Len(lit) :
                /\ lit[i].name = n
                /\ \A j \in (i + 1) .. Len(lit) : lit[j].name # n]]

\* the object's own keys in the order for-in visits them
RECURSIVE KeysOf(_)
KeysOf(lit) ==
    IF lit = <<>> THEN <<>>
    ELSE LET front == KeysOf(SubSeq(lit, 1, Len(lit) - 1))
             last == lit[Len(lit)].name
         IN  IF \E i \in 1 .. Len(front) : front[i] = last THEN front
             ELSE Append(front, last)

\* one "{id, type, implementation}" element of the interface list; an
\* implementation is an object, written as a positive number
InterfaceSpec(id, type, implementation) ==
    [id |-> id, type |-> type, implementation |-> implementation]

NoInterfaces == [id \in {} |-> 0]

\* InterfaceRegistered with the test left out
InterfaceRegisteredNever(interfaces, id) == FALSE

\* the test "if (this.d_interfaces[ifaceSpec.id])": the id holds a truthy
\* value
InterfaceRegistered(interfaces, id) ==
    id \in DOMAIN interfaces /\ interfaces[id] # 0

\* the loop of setupInterfaces over the specs still to visit
RECURSIVE RegisterInterfaces(_, _)
RegisterInterfaces(interfaceList, interfaces) ==
    IF interfaceList = <<>> THEN interfaces
    ELSE LET ifaceSpec == Head(interfaceList)
         IN  IF InterfaceRegistered(interfaces, ifaceSpec.id)
             THEN RegisterInterfaces(Tail(interfaceList), interfaces)
             ELSE RegisterInterfaces(Tail(interfaceList),
                      (ifaceSpec.id :> ifaceSpec.implementation) @@ interfaces)

\* setupInterfaces on the interface list of the configuration
setupInterfaces(interfaceList) == RegisterInterfaces(interfaceList, NoInterfaces)

NoMaps == [n \in {} |-> 0]

\* the for-in loop of setupDevices over the keys still to visit: it throws
\* when d_portDeviceMaps already holds the key
RECURSIVE MapPorts(_, _, _)
MapPorts(keys, portMap, maps) ==
    IF keys = <<>> THEN [threw |-> FALSE, maps |-> maps]
    ELSE LET portName == Head(keys)
             mapInfo == portMap[portName]
         IN  IF portName \in DOMAIN maps
             THEN [threw |-> TRUE, maps |-> maps]
             ELSE MapPorts(Tail(keys), portMap,
                      (portName :> [devicePortType |-> mapInfo.devicePortType,
                                    devicePort |-> mapInfo.devicePort,
                                    direction |-> mapInfo.direction]) @@ maps)

\* setupDevices on the port map written as lit
setupDevices(lit) == MapPorts(KeysOf(lit), ObjectOf(lit), NoMaps)

Mapped(name) == name \in DOMAIN d_portDeviceMaps

\* RobotDevice.write(portType, port, value): the device's write for the
\* port type
DeviceWrite(portType, port, value, fault) ==
    CASE portType = "DIGITAL" -> writeDigital(port, value # 0, fault)
      [] portType = "PWM" -> writePWM(port, value, fault)
      [] OTHER -> /\ err' = "UnsupportedPort" /\ ret' = 0 /\ tx' = <<>>
                  /\ UNCHANGED driverVars

\* RobotDevice.read(portType, port): the device's read for the port type
DeviceRead(portType, port) ==
    CASE portType = "DIGITAL" -> readDigital(port)
      [] portType = "ANALOG" -> readAnalog(port)
      [] portType = "BATT" -> readBattMV
      [] OTHER -> /\ err' = "UnsupportedPort" /\ ret' = 0 /\ tx' = <<>>
                  /\ UNCHANGED driverVars

\* a router call that throws before it reaches the device
RouterThrows(e) ==
    /\ err' = e
    /\ ret' = 0
    /\ tx' = <<>>
    /\ devCalls' = <<>>
    /\ UNCHANGED driverVars

\* a router call that returns without reaching the device
RouterReturns ==
    /\ err' = "none"
    /\ ret' = 0
    /\ tx' = <<>>
    /\ devCalls' = <<>>
    /\ UNCHANGED driverVars

DevCall(method, port, arg) == [method |-> method, port |-> port, arg |-> arg]

\* getInterface(id): the value d_interfaces holds for id, 0 for undefined
RobotGetInterface(id) ==
    /\ call' = Call("Robot.getInterface", NoVal, 0, id)
    /\ err' = "none"
    /\ ret' = IF id \in DOMAIN d_interfaces THEN d_interfaces[id] ELSE 0
    /\ tx' = <<>>
    /\ devCalls' = <<>>
    /\ UNCHANGED driverVars
    /\ UNCHANGED routerVars

RobotEnable ==
    /\ call' = Call("Robot.enable", NoVal, 0, "")
    /\ d_enabled' = TRUE
    /\ lastToggle' = "enable"
    /\ RouterReturns
    /\ UNCHANGED <<cfgPortMap, cfgInterfaces, d_interfaces, constructed,
                   d_portDeviceMaps>>

\* RobotDisable clearing the pending flush timeouts as well
RobotDisableCancels ==
    /\ call' = Call("Robot.disable", NoVal, 0, "")
    /\ d_enabled' = FALSE
    /\ lastToggle' = "disable"
    /\ err' = "none" /\ ret' = 0 /\ tx' = <<>> /\ devCalls' = <<>>
    /\ d_writeTimer' = 0
    /\ UNCHANGED <<d_boardState, d_lastBuf, d_outBuf, d_hasNewData, board, pending>>
    /\ UNCHANGED <<cfgPortMap, cfgInterfaces, d_interfaces, constructed,
                   d_portDeviceMaps>>

RobotDisable ==
    /\ call' = Call("Robot.disable", NoVal, 0, "")
    /\ d_enabled' = FALSE
    /\ lastToggle' = "disable"
    /\ RouterReturns
    /\ UNCHANGED <<cfgPortMap, cfgInterfaces, d_interfaces, constructed,
                   d_portDeviceMaps>>

\* the mode test of configureDigitalPinMode
ModeRecognized(mode) == mode \in PinModes

\* NonConfigurable with the direction test left out
NonConfigurableNever(deviceMapInfo) == FALSE

\* the direction test of configureDigitalPinMode
NonConfigurable(deviceMapInfo) == deviceMapInfo.direction # "none"

RobotConfigureDigitalPinMode(channel, mode, fault) ==
    LET channelName == ChannelName("D", channel)
    IN  /\ call' = Call("Robot.configureDigitalPinMode", channel, 0, mode)
        /\ IF ~ModeRecognized(mode) THEN RouterThrows("InvalidMode")
           ELSE IF Mapped(channelName)
           THEN LET deviceMapInfo == d_portDeviceMaps[channelName]
                IN  IF NonConfigurable(deviceMapInfo)
                    THEN RouterThrows("NonConfigurable")
                    ELSE /\ devCalls' = <<DevCall("configurePin",
                                             deviceMapInfo.devicePort, mode)>>
                         /\ configurePin(deviceMapInfo.devicePort, mode, fault)
           ELSE RouterThrows("Unmapped")
        /\ UNCHANGED routerVars

\* WriteGated with the d_enabled test left out
WriteGatedNever == FALSE

\* the early return of Robot.writeDigital and Robot.writePWM
WriteGated == ~d_enabled

\* the body shared by Robot.writeDigital and Robot.writePWM after the
\* channel name is built
RouterWrite(channelName, value, fault) ==
    IF WriteGated THEN RouterReturns
    ELSE IF Mapped(channelName)
    THEN LET deviceMapInfo == d_portDeviceMaps[channelName]
         IN  /\ devCalls' = <<DevCall("write", deviceMapInfo.devicePort, "")>>
             /\ DeviceWrite(deviceMapInfo.devicePortType,
                            deviceMapInfo.devicePort, value, fault)
    ELSE RouterThrows("Unmapped")

\* value = !!value
Truthy(value) == IF value # 0 THEN 1 ELSE 0

RobotWriteDigital(channel, value, fault) ==
    /\ call' = Call("Robot.writeDigital", channel, value, "")
    /\ RouterWrite(ChannelName("D", channel), Truthy(value), fault)
    /\ UNCHANGED routerVars

RobotWritePWM(channel, value, fault) ==
    /\ call' = Call("Robot.writePWM", channel, value, "")
    /\ RouterWrite(ChannelName("PWM", channel), value, fault)
    /\ UNCHANGED routerVars

\* RouterRead without the throw: an unmapped channel reads as nothing
RouterReadLenient(channelName) ==
    IF Mapped(channelName)
    THEN LET deviceMapInfo == d_portDeviceMaps[channelName]
         IN  /\ devCalls' = <<DevCall("read", deviceMapInfo.devicePort, "")>>
             /\ DeviceRead(deviceMapInfo.devicePortType, deviceMapInfo.devicePort)
    ELSE RouterReturns

\* the body shared by Robot.readDigital, readAnalog and readBattMV
RouterRead(channelName) ==
    IF Mapped(channelName)
    THEN LET deviceMapInfo == d_portDeviceMaps[channelName]
         IN  /\ devCalls' = <<DevCall("read", deviceMapInfo.devicePort, "")>>
             /\ DeviceRead(deviceMapInfo.devicePortType, deviceMapInfo.devicePort)
    ELSE RouterThrows("Unmapped")

RobotReadDigital(channel) ==
    /\ call' = Call("Robot.readDigital", channel, 0, "")
    /\ RouterRead(ChannelName("D", channel))
    /\ UNCHANGED routerVars

RobotReadAnalog(channel) ==
    /\ call' = Call("Robot.readAnalog", channel, 0, "")
    /\ RouterRead(ChannelName("A", channel))
    /\ UNCHANGED routerVars

RobotReadBattMV ==
    /\ call' = Call("Robot.readBattMV", NoVal, 0, "")
    /\ RouterRead(BattName)
    /\ UNCHANGED routerVars

\* =====================================================================
\* The environment, the timers and the specifications
\* =====================================================================

\* the register file of the board at power-on: pins 0..5 configured as
\* inputs (nibble 0x5), everything else zero
PowerOnImage == [i \in 1 .. ImageLen |-> IF i \in 1 .. 3 THEN 85 ELSE 0]

\* an image with the sensor registers 3..16 as given and zero elsewhere
SensorImage(buttons, din, a0hi, a0lo, bhi, blo) ==
    [i \in 1 .. ImageLen |->
        CASE i - 1 = 3 -> buttons
          [] i - 1 = 4 -> din
          [] i - 1 = 5 -> a0hi
          [] i - 1 = 6 -> a0lo
          [] i - 1 = 15 -> bhi
          [] i - 1 = 16 -> blo
          [] OTHER -> 0]

\* the sensor readings the firmware may put in registers 3..16
SensorImages == {SensorImage(0, 0, 0, 0, 0, 0), SensorImage(5, 42, 1, 44, 31, 64)}

\* the firmware refreshes its sensor registers
Sensors(s) ==
    /\ constructed = "ok"
    /\ board' = [i \in 1 .. ImageLen |->
                    IF (i - 1) \in 3 .. 16 THEN s[i] ELSE board[i]]
    /\ board' # board
    /\ call' = Call("sensors", NoVal, 0, "")
    /\ err' = "none" /\ ret' = 0 /\ tx' = <<>> /\ devCalls' = <<>>
    /\ UNCHANGED <<d_boardState, d_lastBuf, d_outBuf, d_hasNewData, d_writeTimer,
                   pending>>
    /\ UNCHANGED routerVars

\* the 100 ms interval fires
PollTimerFires(fault) ==
    /\ constructed = "ok"
    /\ call' = Call("getBoardStatus", NoVal, 0, "")
    /\ devCalls' = <<>>
    /\ getBoardStatus(fault)
    /\ UNCHANGED routerVars

\* a pending 25 ms timeout fires
FlushTimerFires(fault) ==
    /\ constructed = "ok"
    /\ d_writeTimer > 0
    /\ d_writeTimer' = d_writeTimer - 1
    /\ call' = Call("flushWrite", NoVal, 0, "")
    /\ devCalls' = <<>>
    /\ flushWrite(fault)
    /\ UNCHANGED routerVars

\* a call made on the driver itself
Direct(op, ch, val, mode) ==
    /\ constructed = "ok"
    /\ call' = Call(op, ch, val, mode)
    /\ devCalls' = <<>>
    /\ UNCHANGED routerVars

CallWriteByte(register, byte) ==
    Direct("writeByte", register, byte, "") /\ writeByte(register, byte)

CallWriteWord(register, word) ==
    Direct("writeWord", register, word, "") /\ writeWord(register, word)

CallWriteBuffer(register, buffer) ==
    Direct("writeBuffer", register, Len(buffer), "") /\ writeBuffer(register, buffer)

CallConfigurePin(channel, mode, fault) ==
    Direct("configurePin", channel, 0, mode) /\ configurePin(channel, mode, fault)

CallWriteDigital(channel, value, fault) ==
    Direct("writeDigital", channel, IF value THEN 1 ELSE 0, "")
    /\ writeDigital(channel, value, fault)

CallWritePWM(channel, n, fault) ==
    Direct("writePWM", channel, n, "") /\ writePWM(channel, n, fault)

\* flushWrite called as a method, not by its timeout
CallFlushWrite(fault) ==
    Direct("PololuAstarBoard.flushWrite", NoVal, 0, "")
    /\ flushWrite(fault)
    /\ UNCHANGED d_writeTimer

\* the state new Robot(config) and new PololuAstarBoard(...) leave, apart
\* from the router's port map
InitDevice ==
    /\ cfgInterfaces = <<>>
    /\ d_interfaces = setupInterfaces(cfgInterfaces)
    /\ d_enabled = FALSE
    /\ lastToggle = "none"
    /\ d_boardState = InitBoardState
    /\ d_lastBuf = Undefined
    /\ d_outBuf = Undefined
    /\ d_hasNewData = FALSE
    /\ d_writeTimer = 0
    /\ board = PowerOnImage
    /\ call = Call("new", NoVal, 0, "")
    /\ err = "none"
    /\ ret = 0
    /\ tx = <<>>
    /\ devCalls = <<>>
    /\ pending = NoPending

D0 == ChannelName("D", 0)
D1 == ChannelName("D", 1)
PWM0 == ChannelName("PWM", 0)
A0 == ChannelName("A", 0)

\* the port maps the router is run with
MainPortMaps ==
    { <<Entry(D0, "DIGITAL", 0, "none"), Entry(D1, "DIGITAL", 1, "OUT"),
        Entry(PWM0, "PWM", 0, "none"), Entry(A0, "ANALOG", 0, "none"),
        Entry(BattName, "BATT", 0, "none")>>,
      <<Entry(D0, "DIGITAL", 1, "none")>> }

Channels == 0 .. MaxChannel
\* the modes handed to the router: a recognized one and one that is not
Modes == {"INPUT_PULLUP", "BOGUS"}
\* the PWM input of the router specification: -2.0
MainPWM == {0 - 2 * PWMDen}

\* ---------------------------------------------------------------------
\* Spec: the router over the driver.  Every call goes through the router;
\* the poll timer and the board's sensors run beside it.
\* ---------------------------------------------------------------------
Init ==
    /\ cfgPortMap \in MainPortMaps
    /\ constructed = "ok"
    /\ d_portDeviceMaps = setupDevices(cfgPortMap).maps
    /\ InitDevice

Next ==
    \/ \E f \in BOOLEAN : PollTimerFires(f)
    \/ \E s \in SensorImages : Sensors(s)
    \/ constructed = "ok" /\ RobotEnable
    \/ constructed = "ok" /\ RobotDisable
    \/ \E c \in Channels, m \in Modes, f \in BOOLEAN :
          constructed = "ok" /\ RobotConfigureDigitalPinMode(c, m, f)
    \/ \E c \in Channels, v \in {0, 2}, f \in BOOLEAN :
          constructed = "ok" /\ RobotWriteDigital(c, v, f)
    \/ \E c \in Channels, n \in MainPWM, f \in BOOLEAN :
          constructed = "ok" /\ RobotWritePWM(c, n, f)
    \/ \E c \in Channels : constructed = "ok" /\ RobotReadDigital(c)
    \/ \E c \in Channels : constructed = "ok" /\ RobotReadAnalog(c)
    \/ constructed = "ok" /\ RobotReadBattMV

Spec == Init /\ [][Next]_vars

\* ---------------------------------------------------------------------
\* FlushSpec: the buffered write path of the driver with the flush and
\* poll timers, and one direct write beside it.
\* ---------------------------------------------------------------------
DriverPortMap == <<Entry(D0, "DIGITAL", 0, "none")>>

DriverInit ==
    /\ cfgPortMap = DriverPortMap
    /\ constructed = "ok"
    /\ d_portDeviceMaps = setupDevices(cfgPortMap).maps
    /\ InitDevice

FlushNext ==
    \/ \E f \in BOOLEAN : PollTimerFires(f)
    \/ \E f \in BOOLEAN : FlushTimerFires(f)
    \/ CallWriteByte(17, 1)
    \/ CallWriteWord(21, 300)
    \/ CallWriteBuffer(19, <<1, 144>>)
    \/ \E v \in BOOLEAN, f \in BOOLEAN : CallWriteDigital(0, v, f)

FlushSpec == DriverInit /\ [][FlushNext]_vars

\* ---------------------------------------------------------------------
\* PinSpec: the direct write path of the driver with the poll timer.
\* ---------------------------------------------------------------------
PinNext ==
    \/ \E f \in BOOLEAN : PollTimerFires(f)
    \/ \E c \in {0, 1}, m \in PinModes, f \in BOOLEAN : CallConfigurePin(c, m, f)
    \/ \E c \in {0, 1}, v \in BOOLEAN, f \in BOOLEAN : CallWriteDigital(c, v, f)

PinSpec == DriverInit /\ [][PinNext]_vars

\* FlushSpec on a bus that never faults, with both timers firing fairly
FlushNextNoFault ==
    \/ PollTimerFires(FALSE)
    \/ FlushTimerFires(FALSE)
    \/ CallWriteByte(17, 1)
    \/ CallWriteWord(21, 300)
    \/ CallWriteBuffer(19, <<1, 144>>)
    \/ \E v \in BOOLEAN : CallWriteDigital(0, v, FALSE)

FlushFairSpec ==
    /\ DriverInit
    /\ [][FlushNextNoFault]_vars
    /\ WF_vars(PollTimerFires(FALSE))
    /\ WF_vars(FlushTimerFires(FALSE))

\* ---------------------------------------------------------------------
\* ConfigSpec: new Robot(config) over the port maps one can write with at
\* most MaxEntries lines.
\* ---------------------------------------------------------------------
PortTypeOf(name) ==
    CASE name[1] = "D" -> "DIGITAL"
      [] name[1] = "PWM" -> "PWM"
      [] name[1] = "A" -> "ANALOG"
      [] OTHER -> "BATT"

EntryChoices ==
    {Entry(n, PortTypeOf(n), p, d) :
        n \in {D0, PWM0, BattName}, p \in {0, 1}, d \in {"none", "IN"}}

PortMapLiterals ==
    UNION {[1 .. k -> EntryChoices] : k \in 0 .. MaxEntries}

ConfigInit ==
    /\ cfgPortMap \in PortMapLiterals
    /\ constructed = "new"
    /\ d_portDeviceMaps = NoMaps
    /\ InitDevice

\* the Robot constructor: d_enabled = false, setupInterfaces, then
\* setupDevices
Construct ==
    /\ constructed = "new"
    /\ LET r == setupDevices(cfgPortMap)
       IN  /\ constructed' = IF r.threw THEN "threw" ELSE "ok"
           /\ d_portDeviceMaps' = r.maps
           /\ err' = IF r.threw THEN "AlreadyMapped" ELSE "none"
    /\ d_interfaces' = setupInterfaces(cfgInterfaces)
    /\ call' = Call("Robot", NoVal, 0, "")
    /\ UNCHANGED <<cfgPortMap, cfgInterfaces, d_enabled, lastToggle, ret, tx,
                   devCalls>>
    /\ UNCHANGED driverVars

ConfigNext == Construct

ConfigSpec == ConfigInit /\ [][ConfigNext]_vars

\* ---------------------------------------------------------------------
\* PWMSpec: the driver's writePWM on every input of the grid.  The initial
\* state holds the input in call; the one step applies writePWM to it.
\* ---------------------------------------------------------------------
PWMGrid == (0 - (PWMDen + PWMOver)) .. (PWMDen + PWMOver)

PWMInit ==
    /\ cfgPortMap = DriverPortMap
    /\ constructed = "ok"
    /\ d_portDeviceMaps = setupDevices(cfgPortMap).maps
    /\ cfgInterfaces = <<>>
    /\ d_interfaces = setupInterfaces(cfgInterfaces)
    /\ d_enabled = FALSE
    /\ lastToggle = "none"
    /\ d_boardState = InitBoardState
    /\ d_lastBuf = Undefined
    /\ d_outBuf = Undefined
    /\ d_hasNewData = FALSE
    /\ d_writeTimer = 0
    /\ board = PowerOnImage
    /\ \E c \in {0, 1}, n \in PWMGrid : call = Call("input", c, n, "")
    /\ err = "none"
    /\ ret = 0
    /\ tx = <<>>
    /\ devCalls = <<>>
    /\ pending = NoPending

PWMNext ==
    \E f \in BOOLEAN : call.op = "input" /\ CallWritePWM(call.ch, call.val, f)

PWMSpec == PWMInit /\ [][PWMNext]_vars

\* ---------------------------------------------------------------------
\* DecodeSpec: the poll on a board whose register file is any of the
\* images of DecodeImages.
\* ---------------------------------------------------------------------
\* an image with byte 3 = b3, byte 4 = b4, the word of analog channel k =
\* (ahi, alo), the battery word = (bhi, blo) and every other byte = other
DecodeImage(b3, b4, k, ahi, alo, bhi, blo, other) ==
    [i \in 1 .. ImageLen |->
        CASE i - 1 = 3 -> b3
          [] i - 1 = 4 -> b4
          [] i - 1 = 5 + 2 * k -> ahi
          [] i - 1 = 6 + 2 * k -> alo
          [] i - 1 = 15 -> bhi
          [] i - 1 = 16 -> blo
          [] OTHER -> other]

DecodeImages ==
    {DecodeImage(b3, b4, k, a[1], a[2], b[1], b[2], other) :
        b3 \in {0, 2, 13, 255}, b4 \in {0, 42, 85, 255}, k \in 0 .. 4,
        a \in {<<1, 44>>, <<255, 255>>, <<0, 7>>}, b \in {<<0, 9>>, <<31, 64>>},
        other \in {0, 255}}

DecodeInit ==
    /\ cfgPortMap = DriverPortMap
    /\ constructed = "ok"
    /\ d_portDeviceMaps = setupDevices(cfgPortMap).maps
    /\ cfgInterfaces = <<>>
    /\ d_interfaces = setupInterfaces(cfgInterfaces)
    /\ d_enabled = FALSE
    /\ lastToggle = "none"
    /\ d_boardState = InitBoardState
    /\ d_lastBuf = Undefined
    /\ d_outBuf = Undefined
    /\ d_hasNewData = FALSE
    /\ d_writeTimer = 0
    /\ board \in DecodeImages
    /\ call = Call("new", NoVal, 0, "")
    /\ err = "none"
    /\ ret = 0
    /\ tx = <<>>
    /\ devCalls = <<>>
    /\ pending = NoPending

DecodeNext == \E f \in BOOLEAN : PollTimerFires(f)

DecodeSpec == DecodeInit /\ [][DecodeNext]_vars

\* ---------------------------------------------------------------------
\* TimerSpec: the router's enable/disable, reads, writes and configure
\* beside a buffered write, both timers and the board's sensors.
\* ---------------------------------------------------------------------
TimerPortMap == CHOOSE m \in MainPortMaps : Len(m) > 1

TimerInit ==
    /\ cfgPortMap = TimerPortMap
    /\ constructed = "ok"
    /\ d_portDeviceMaps = setupDevices(cfgPortMap).maps
    /\ InitDevice

TimerNext ==
    \/ \E f \in BOOLEAN : PollTimerFires(f)
    \/ \E f \in BOOLEAN : FlushTimerFires(f)
    \/ \E s \in SensorImages : Sensors(s)
    \/ RobotEnable
    \/ RobotDisable
    \/ CallWriteByte(17, 1)
    \/ \E f \in BOOLEAN : RobotConfigureDigitalPinMode(0, "INPUT_PULLUP", f)
    \/ \E v \in {0, 2}, f \in BOOLEAN : RobotWriteDigital(0, v, f)
    \/ \E f \in BOOLEAN : RobotWritePWM(0, PWMDen, f)
    \/ RobotReadDigital(1)
    \/ RobotReadAnalog(0)
    \/ RobotReadBattMV

TimerSpec == TimerInit /\ [][TimerNext]_vars

\* ---------------------------------------------------------------------
\* FlushCallSpec: FlushSpec with flushWrite also called as a method.
\* ---------------------------------------------------------------------
FlushCallNext ==
    \/ FlushNext
    \/ \E f \in BOOLEAN : CallFlushWrite(f)

FlushCallSpec == DriverInit /\ [][FlushCallNext]_vars

\* ---------------------------------------------------------------------
\* IfaceSpec: new Robot(config) over the interface lists of at most
\* MaxIfaces specs, then getInterface.
\* ---------------------------------------------------------------------
InterfaceIds == {"i2c-1", "spi-0"}

InterfaceChoices ==
    {InterfaceSpec(id, type, implementation) :
        id \in InterfaceIds, type \in {"I2C", "BOGUS"}, implementation \in {1, 2}}

InterfaceLists ==
    UNION {[1 .. k -> InterfaceChoices] : k \in 0 .. MaxIfaces}

IfaceInit ==
    /\ cfgPortMap = DriverPortMap
    /\ cfgInterfaces \in InterfaceLists
    /\ d_interfaces = NoInterfaces
    /\ constructed = "new"
    /\ d_portDeviceMaps = NoMaps
    /\ d_enabled = FALSE
    /\ lastToggle = "none"
    /\ d_boardState = InitBoardState
    /\ d_lastBuf = Undefined
    /\ d_outBuf = Undefined
    /\ d_hasNewData = FALSE
    /\ d_writeTimer = 0
    /\ board = PowerOnImage
    /\ call = Call("new", NoVal, 0, "")
    /\ err = "none"
    /\ ret = 0
    /\ tx = <<>>
    /\ devCalls = <<>>
    /\ pending = NoPending

IfaceNext ==
    \/ Construct
    \/ \E id \in InterfaceIds \cup {"uart-9"} :
          constructed = "ok" /\ RobotGetInterface(id)

IfaceSpec == IfaceInit /\ [][IfaceNext]_vars

\* ---------------------------------------------------------------------
\* ColdSpec: every write of the driver, called from construction on, with
\* both timers.
\* ---------------------------------------------------------------------
ColdNext ==
    \/ \E f \in BOOLEAN : PollTimerFires(f)
    \/ \E f \in BOOLEAN : FlushTimerFires(f)
    \/ CallWriteByte(17, 1)
    \/ CallWriteWord(21, 300)
    \/ CallWriteBuffer(19, <<1, 144>>)
    \/ \E f \in BOOLEAN : CallConfigurePin(0, "OUTPUT", f)
    \/ \E f \in BOOLEAN : CallWriteDigital(0, TRUE, f)
    \/ \E f \in BOOLEAN : CallWritePWM(0, PWMDen \div 2, f)

ColdSpec == DriverInit /\ [][ColdNext]_vars

\* =====================================================================
\* Properties
\* =====================================================================

\* the channel name a router call addresses
CalledName ==
    CASE call.op \in {"Robot.configureDigitalPinMode", "Robot.writeDigital",
                      "Robot.readDigital"} -> ChannelName("D", call.ch)
      [] call.op = "Robot.writePWM" -> ChannelName("PWM", call.ch)
      [] call.op = "Robot.readAnalog" -> ChannelName("A", call.ch)
      [] OTHER -> BattName

RouterWrites == {"Robot.writeDigital", "Robot.writePWM"}
RouterReads == {"Robot.readDigital", "Robot.readAnalog", "Robot.readBattMV"}
RouterPortCalls ==
    RouterWrites \cup RouterReads \cup {"Robot.configureDigitalPinMode"}
BufferedWrites == {"writeByte", "writeWord", "writeBuffer"}

HasDuplicate(lit) ==
    \E i, j \in 1 .. Len(lit) : i < j /\ lit[i].name = lit[j].name

\* C1 (ConfigSpec): a port map that assigns a channel name more than once
\* never yields a router: construction does not end "ok" on it.
C1_DuplicateFails ==
    HasDuplicate(cfgPortMap) => constructed # "ok"

\* C2 as claimed (Spec): every configure, write and read call on an unmapped
\* channel fails with the unmapped-port error, whatever the enabled state
\* and the arguments.
C2_UnmappedAlwaysFails ==
    (call.op \in RouterPortCalls /\ ~Mapped(CalledName)) => err = "Unmapped"

\* C2 as amended (Spec): on an unmapped channel the reads always fail with
\* the unmapped-port error; writeDigital and writePWM fail with it while the
\* router is enabled and return silently while it is disabled;
\* configureDigitalPinMode fails with it for a recognized mode and with the
\* invalid-mode error otherwise.  None of them reaches the device or the bus.
C2_UnmappedFails ==
    (call.op \in RouterPortCalls /\ ~Mapped(CalledName)) =>
        /\ devCalls = <<>>
        /\ tx = <<>>
        /\ call.op \in RouterReads => err = "Unmapped"
        /\ call.op \in RouterWrites =>
              err = (IF d_enabled THEN "Unmapped" ELSE "none")
        /\ call.op = "Robot.configureDigitalPinMode" =>
              err = (IF call.mode \in {"INPUT", "INPUT_PULLUP", "OUTPUT"}
                     THEN "Unmapped" ELSE "InvalidMode")

\* C2 witness: an enabled router was asked to write an unmapped channel
C2_Witness ==
    /\ call.op = "Robot.writePWM"
    /\ ~Mapped(CalledName)
    /\ d_enabled
    /\ err = "Unmapped"

\* the value of the board state a router read addresses
CachedValue ==
    LET port == d_portDeviceMaps[CalledName].devicePort
    IN  CASE call.op = "Robot.readDigital" -> d_boardState.digitalIn[port + 1]
          [] call.op = "Robot.readAnalog" -> d_boardState.analogIn[port + 1]
          [] OTHER -> d_boardState.battMV

\* C3 (Spec): a router write on a mapped channel reaches the device or the
\* bus only if the later of enable() and disable() was enable(); otherwise
\* (also before the first enable()) it returns with no device and no bus
\* call.  A read on a mapped channel returns the cached board state value
\* whatever the enabled state.
C3_WritesGatedReadsServed ==
    /\ (call.op \in RouterWrites /\ Mapped(CalledName)) =>
          /\ (devCalls # <<>> \/ tx # <<>>) => lastToggle = "enable"
          /\ lastToggle # "enable" =>
                devCalls = <<>> /\ tx = <<>> /\ err = "none"
    /\ (call.op \in RouterReads /\ Mapped(CalledName)) =>
          /\ err = "none"
          /\ ret = CachedValue
          /\ tx = <<>>

\* C3 witness: a write on a mapped channel after enable() then disable(),
\* with a polled image the device could have written from
C3_Witness ==
    /\ call.op = "Robot.writeDigital"
    /\ Mapped(CalledName)
    /\ lastToggle = "disable"
    /\ d_lastBuf # Undefined
    /\ devCalls = <<>>

\* C4 (Spec): configureDigitalPinMode calls configurePin exactly once, with
\* the mapped device port and the mode, exactly when the mode is recognized,
\* 'D-<channel>' is mapped and the mapping has no direction; otherwise it
\* throws the matching error and calls neither the device nor the bus.
C4_ConfigureDelegates ==
    call.op = "Robot.configureDigitalPinMode" =>
        LET name == ChannelName("D", call.ch)
            recognized == call.mode \in {"INPUT", "INPUT_PULLUP", "OUTPUT"}
            free == Mapped(name) /\ d_portDeviceMaps[name].direction = "none"
        IN  IF recognized /\ free
            THEN devCalls = <<DevCall("configurePin",
                                      d_portDeviceMaps[name].devicePort, call.mode)>>
            ELSE /\ devCalls = <<>>
                 /\ tx = <<>>
                 /\ err = (IF ~recognized THEN "InvalidMode"
                           ELSE IF ~Mapped(name) THEN "Unmapped"
                           ELSE "NonConfigurable")

\* C4 witness: a configure call went through to the device and the bus
C4_Witness ==
    /\ call.op = "Robot.configureDigitalPinMode"
    /\ Len(devCalls) = 1
    /\ Len(tx) = 1
    /\ err = "none"

HasPending == \E i \in 1 .. ImageLen : pending[i] # NoVal

\* C5 (FlushSpec): at most one flush timer is pending at any time; a
\* buffered write made while one is pending arms no other; the timer's
\* firing ends the window with exactly one block write.
C5_OneTimerOneFlush ==
    [][/\ d_writeTimer' <= 1
       /\ (call'.op \in BufferedWrites /\ d_writeTimer > 0) =>
             d_writeTimer' = d_writeTimer
       /\ call'.op = "flushWrite" =>
             /\ Len(tx') = 1
             /\ tx'[1].kind = "writeBlock"
             /\ d_writeTimer' = 0]_vars

\* C5 witness: three buffered writes made while the one timer is pending
C5_Witness ==
    /\ d_writeTimer = 1
    /\ pending[17 + 1] # NoVal
    /\ pending[19 + 1] # NoVal
    /\ pending[21 + 1] # NoVal

\* C6 (FlushSpec): the block a flush writes holds every byte the buffered
\* writes issued since the timer was armed have set.
C6_FlushCarriesWrites ==
    [][(call'.op = "flushWrite" /\ tx' # <<>>) =>
          \A i \in 1 .. ImageLen :
              pending[i] # NoVal => tx'[1].data[i] = pending[i]]_vars

\* C7 (FlushFairSpec): on a bus without faults and with the timers firing,
\* every buffered write is eventually carried by a block write.
C7_WriteEventuallyFlushed == HasPending ~> ~HasPending

\* the nibble of the pin that shares its configuration byte with channel
OtherNibble(image, channel) ==
    IF channel % 2 = 0 THEN LoNibble(Get(image, channel \div 2))
    ELSE HiNibble(Get(image, channel \div 2))

\* C8 (PinSpec): a configurePin that reaches the board leaves the nibble of
\* the other pin of the byte as it was on the board.
C8_OtherNibbleKept ==
    [][(call'.op = "configurePin" /\ err' = "none") =>
          OtherNibble(board', call'.ch) = OtherNibble(board, call'.ch)]_vars

\* C9 (PWMSpec): writePWM writes one word at offset 19 + 2 * channel; for
\* every v >= 1 it is the word of v = 1 (400) and for every v <= -1 the
\* word of v = -1 (-400 in two's complement).
C9_ClampedWord ==
    call.op = "writePWM" =>
        /\ Len(tx) = 1
        /\ tx[1].kind = "writeWord"
        /\ tx[1].off = 19 + 2 * call.ch
        /\ call.val >= PWMDen => tx[1].data = 400
        /\ call.val <= 0 - PWMDen => tx[1].data = 65536 - 400

\* C9 witness: an input above 1 was written
C9_Witness ==
    /\ call.op = "writePWM"
    /\ call.val > PWMDen
    /\ tx[1].data = 400

\* a 16-bit word read back as a two's-complement integer
Signed16(w) == IF w >= 32768 THEN w - 65536 ELSE w
Sign(x) == IF x > 0 THEN 1 ELSE IF x < 0 THEN 0 - 1 ELSE 0
\* whether k is the integer nearest to num / den, a tie going up
NearestTieUp(k, num, den) ==
    /\ 2 * k * den - 2 * num <= den
    /\ 2 * num - 2 * k * den < den
ClampedInput(n) ==
    IF n > PWMDen THEN PWMDen ELSE IF n < 0 - PWMDen THEN 0 - PWMDen ELSE n

BitSet(x, i) == x % Pow2(i + 1) >= Pow2(i)
Flag(b) == IF b THEN 1 ELSE 0

\* the image with every byte outside 3..16 replaced by v
OutsideSensors(buf, v) ==
    [i \in 1 .. ImageLen |-> IF (i - 1) \in 3 .. 16 THEN buf[i] ELSE v]

\* C11: after a successful poll, buttonA/B/C are bits 0/1/2 of byte 3 of
\* the image read, digitalIn[i] is bit i of byte 4 for i in 0..5,
\* analogIn[i] is 256 * byte[5+2i] + byte[6+2i] for i in 0..4, battMV is
\* 256 * byte[15] + byte[16], and the bytes outside 3..16 have no influence.
C11_PollDecode ==
    (call.op = "getBoardStatus" /\ err = "none") =>
        /\ d_lastBuf = board
        /\ \A i \in 0 .. 2 :
              d_boardState.buttons[i + 1] = Flag(BitSet(board[3 + 1], i))
        /\ \A i \in 0 .. 5 :
              d_boardState.digitalIn[i + 1] = Flag(BitSet(board[4 + 1], i))
        /\ \A i \in 0 .. 4 :
              d_boardState.analogIn[i + 1] =
                  256 * board[5 + 2 * i + 1] + board[6 + 2 * i + 1]
        /\ d_boardState.battMV = 256 * board[15 + 1] + board[16 + 1]
        /\ \A v \in {0, 255} :
              d_boardState = DecodeStatus(OutsideSensors(board, v))

C11_Witness ==
    /\ call.op = "getBoardStatus"
    /\ err = "none"
    /\ board[3 + 1] = 13
    /\ board[4 + 1] = 42
    /\ board[18 + 1] = 255
    /\ d_boardState.buttons = <<1, 0, 1>>
    /\ d_boardState.digitalIn = <<0, 1, 0, 1, 0, 1>>
    /\ d_boardState.analogIn[3] = 300
    /\ d_boardState.battMV = 8000

\* the calls that can fail: every router call and the direct-path writes of
\* the driver
FailingCalls ==
    {"Robot.configureDigitalPinMode", "Robot.writeDigital", "Robot.writePWM",
     "Robot.readDigital", "Robot.readAnalog", "Robot.readBattMV",
     "configurePin", "writeDigital", "writePWM"}

\* C12: a router or driver call that fails (unmapped channel, invalid mode,
\* non-configurable pin, transport fault inside a direct-path write) leaves
\* the board state, the last-known register image and the pending write
\* buffer as they were before the call.
C12_FailedCallKeepsState ==
    [][(call'.op \in FailingCalls /\ err' # "none") =>
          UNCHANGED <<d_boardState, d_lastBuf, d_outBuf>>]_vars

\* the board-state value a router read of the mapped channel just called
\* is served from
ServedValue(state) ==
    LET m == d_portDeviceMaps[CalledName]
    IN  CASE m.devicePortType = "DIGITAL" -> state.digitalIn[m.devicePort + 1]
          [] m.devicePortType = "ANALOG" -> state.analogIn[m.devicePort + 1]
          [] OTHER -> state.battMV

\* C13: disable() cancels neither timer.  It leaves the pending flush
\* timeout and the whole driver as they are; a flush timeout firing while
\* the router is disabled writes the pending buffer to the bus; a poll
\* firing while disabled refreshes the board state from the board; a read
\* made while disabled returns the value of the board state as the polls
\* left it.
C13_DisableKeepsTimers ==
    [][/\ call'.op = "Robot.disable" =>
              (~d_enabled' /\ UNCHANGED driverVars)
       /\ (call'.op = "flushWrite" /\ ~d_enabled) =>
              /\ Len(tx') = 1
              /\ tx'[1].kind = "writeBlock"
              /\ tx'[1].data = d_outBuf
              /\ tx'[1].ok => \A r \in Regs \ (3 .. 16) :
                                  Get(board', r) = Get(d_outBuf, r)
       /\ (call'.op = "getBoardStatus" /\ ~d_enabled /\ err' = "none") =>
              d_boardState' = DecodeStatus(board)
       /\ (call'.op \in RouterReads /\ ~d_enabled) =>
              /\ err' = "none"
              /\ ret' = ServedValue(d_boardState)'
              /\ UNCHANGED d_boardState]_vars

\* disable() has just returned with the flush timeout of an earlier
\* buffered write still pending
C13_Witness ==
    /\ call.op = "Robot.disable"
    /\ ~d_enabled
    /\ d_writeTimer = 1
    /\ HasPending

\* C14: immediately after a flush completes, the pending write buffer
\* equals the image the flush just wrote to the board, not an older polled
\* image.
C14_BufferIsFlushedImage ==
    [][(call'.op = "flushWrite" /\ tx' # <<>> /\ err' = "none") =>
          d_outBuf' = tx'[1].data]_vars

\* C15: a direct-path write can race with a pending buffered flush.  A
\* writeDigital made while a flush timeout is pending puts its byte on the
\* board at offset 18 and leaves the pending write buffer as it was; the
\* flush that follows writes the whole pending image, so every register
\* outside the sensor range, offset 18 among them, ends up holding the
\* value of the pending image.
C15_FlushReassertsStale ==
    [][/\ (call'.op = "writeDigital" /\ err' = "none") =>
              /\ Get(board', DigitalOutReg) = tx'[1].data
              /\ UNCHANGED <<d_outBuf, d_writeTimer>>
       /\ (call'.op = "flushWrite" /\ err' = "none") =>
              /\ Len(tx') = 1
              /\ Len(tx'[1].data) = ImageLen
              /\ tx'[1].data = d_outBuf
              /\ \A r \in Regs \ (3 .. 16) : Get(board', r) = Get(d_outBuf, r)]_vars

\* a buffered write has armed the flush timeout, writeDigital has then set
\* bit 0 of offset 18 on the board, and the pending image still holds the
\* older value the flush will write
C15_Witness ==
    /\ call.op = "writeDigital"
    /\ err = "none"
    /\ d_writeTimer = 1
    /\ HasPending
    /\ Get(board, DigitalOutReg) = 1
    /\ Get(d_outBuf, DigitalOutReg) = 0

\* C16: the byte writeDigital(channel, value) sends for offset 18 has bit
\* channel equal to value and differs from the last-known byte in no other
\* bit; over writeDigital calls with polls in between, the byte sent
\* carries for every other channel the value the board holds for it, which
\* is the value of the last writeDigital of that channel that reached it.
C16_DigitalByteCarriesCommands ==
    [][(call'.op = "writeDigital" /\ tx' # <<>>) =>
          /\ Bit(tx'[1].data, call'.ch) = call'.val
          /\ \A c \in 0 .. 7 :
                c # call'.ch =>
                    /\ Bit(tx'[1].data, c) = Bit(Get(d_lastBuf, DigitalOutReg), c)
                    /\ Bit(tx'[1].data, c) = Bit(Get(board, DigitalOutReg), c)]_vars

\* C17: only the poll changes the board state served by reads.  A step
\* that changes buttons, digitalIn, analogIn or battMV is a successful
\* poll; a poll whose bus read faults changes nothing; a router read
\* returns the field of the board state, which is the decode of the image
\* the most recent successful poll read.
C17_OnlyPollRefreshes ==
    [][/\ d_boardState' # d_boardState =>
              (call'.op = "getBoardStatus" /\ err' = "none")
       /\ call'.op = "getBoardStatus" =>
              d_boardState' = IF err' = "none" THEN DecodeStatus(board)
                              ELSE d_boardState
       /\ call'.op \in RouterReads =>
              /\ err' = "none"
              /\ ret' = ServedValue(d_boardState)'
              /\ d_lastBuf # Undefined =>
                    ret' = ServedValue(DecodeStatus(d_lastBuf))']_vars

\* a read served from the last poll after the board's sensors have moved on
C17_Witness ==
    /\ call.op = "Robot.readDigital"
    /\ ret = 1
    /\ Get(d_lastBuf, 4) = 42
    /\ Get(board, 4) = 0
    /\ d_hasNewData

\* C18: every block write on the bus is preceded by a buffered write made
\* since the previous block write (or since construction): a flushWrite
\* that finds no buffered write waiting for a flush issues no bus
\* transaction.
C18_NoEmptyFlush ==
    [][(tx' # <<>> /\ tx'[1].kind = "writeBlock") => HasPending]_vars

\* the implementation of the first spec of the list carrying id, 0 when
\* no spec carries it
FirstWithId(list, id) ==
    IF \E i \in 1 .. Len(list) : list[i].id = id
    THEN list[CHOOSE i \in 1 .. Len(list) :
                  /\ list[i].id = id
                  /\ \A j \in 1 .. (i - 1) : list[j].id # id].implementation
    ELSE 0

\* C19: for every interface list construction succeeds, and getInterface(id)
\* returns the implementation of the first spec of the list carrying id
\* (nothing when no spec carries it): a later spec with a registered id is
\* skipped without error, whatever the declared types are.
C19_FirstInterfaceWins ==
    /\ constructed # "threw"
    /\ call.op = "Robot" => (constructed = "ok" /\ err = "none")
    /\ constructed = "ok" =>
          /\ DOMAIN d_interfaces = {cfgInterfaces[i].id : i \in 1 .. Len(cfgInterfaces)}
          /\ \A id \in DOMAIN d_interfaces :
                d_interfaces[id] = FirstWithId(cfgInterfaces, id)
    /\ call.op = "Robot.getInterface" =>
          (err = "none" /\ ret = FirstWithId(cfgInterfaces, call.mode))

\* getInterface of an id two specs carry, the first of an unrecognized type
C19_Witness ==
    /\ call.op = "Robot.getInterface"
    /\ Len(cfgInterfaces) = 3
    /\ cfgInterfaces[1].id = call.mode
    /\ cfgInterfaces[1].type = "BOGUS"
    /\ cfgInterfaces[1].implementation = 2
    /\ cfgInterfaces[2].id = call.mode
    /\ cfgInterfaces[2].implementation = 1
    /\ cfgInterfaces[3].id # call.mode
    /\ ret = 2

\* the driver's writes that need the register image
ImageWrites == {"configurePin", "writeDigital"} \cup BufferedWrites

\* C20: while no poll has succeeded since construction there is no
\* register image.  configurePin, writeDigital and the buffered writes
\* fault without a bus transaction; no flush timer is armed, the
\* pending-data flag is not set and no pending buffer exists; writePWM
\* issues its word write, and it is the only write that reaches the bus.
C20_NoImageBeforeFirstPoll ==
    d_lastBuf = Undefined =>
        /\ call.op \in ImageWrites => (err = "TypeError" /\ tx = <<>>)
        /\ d_writeTimer = 0
        /\ ~d_hasNewData
        /\ d_outBuf = Undefined
        /\ ~HasPending
        /\ call.op = "writePWM" =>
              (Len(tx) = 1 /\ tx[1].kind = "writeWord" /\ err # "TypeError")
        /\ tx # <<>> => call.op \in {"writePWM", "getBoardStatus"}
        /\ \A r \in Regs \ {PWMBaseReg, PWMBaseReg + 1} :
              Get(board, r) = Get(PowerOnImage, r)

\* a buffered write faults before the first successful poll, after writePWM
\* has put its word on the board
C20_Witness ==
    /\ d_lastBuf = Undefined
    /\ call.op = "writeByte"
    /\ err = "TypeError"
    /\ Get(board, PWMBaseReg + 1) = 200

====
